---- MODULE Spec2Model ----
(***************************************************************************)
(* Model of Matrix.Benchmarks/plotter/plotter.py: a script that loads a    *)
(* BenchmarkDotNet CSV report, adds the column Mean_us and renders four    *)
(* charts.  Cell texts are sequences of one-character strings (the         *)
(* character 'μ' is written "mu"); Python floats are IEEE-754 doubles,     *)
(* kept as a 53-bit significand and a binary exponent, so that the         *)
(* rounding of  float(s) / 1000  and  float(s) * 1000  is the rounding     *)
(* the script performs.                                                    *)
(***************************************************************************)
EXTENDS Integers, Sequences, FiniteSets, TLC

(***************************************************************************)
(* Bounds of the model.                                                    *)
(***************************************************************************)
\* rows of a report with all its columns
MaxRows == 2

\* rows of a report that lacks a column
MaxRowsNoColumn == 1

(***************************************************************************)
(* Python str operations used by the script.                               *)
(***************************************************************************)
\* a missing cell (pandas NaN); no text cell equals it
NULL == <<"<NA>">>

Digits == <<"0", "1", "2", "3", "4", "5", "6", "7", "8", "9">>

IsDigit(c) == \E d \in 1..10 : Digits[d] = c

DigitVal(c) == (CHOOSE d \in 1..10 : Digits[d] = c) - 1

IsSpace(c) == c = " "

\* s[i..j], empty when i > j
Slice(s, i, j) == IF i > j THEN <<>> ELSE SubSeq(s, i, j)

\* str.startswith at position i
MatchAt(s, i, sub) ==
    /\ i + Len(sub) - 1 <= Len(s)
    /\ \A k \in 1..Len(sub) : s[i + k - 1] = sub[k]

\* sub in s
Contains(s, sub) == \E i \in 1..Len(s) : MatchAt(s, i, sub)

\* s.replace(old, ''): the non-overlapping occurrences of old, left to right
RECURSIVE ReplaceFrom(_, _, _)
ReplaceFrom(s, i, old) ==
    IF i > Len(s) THEN <<>>
    ELSE IF MatchAt(s, i, old) THEN ReplaceFrom(s, i + Len(old), old)
    ELSE <<s[i]>> \o ReplaceFrom(s, i + 1, old)

Replace(s, old) == ReplaceFrom(s, 1, old)

\* s.strip()
RECURSIVE LStrip(_)
LStrip(s) == IF s # <<>> /\ IsSpace(Head(s)) THEN LStrip(Tail(s)) ELSE s

RECURSIVE RStrip(_)
RStrip(s) ==
    IF s # <<>> /\ IsSpace(s[Len(s)]) THEN RStrip(Slice(s, 1, Len(s) - 1)) ELSE s

Strip(s) == RStrip(LStrip(s))

\* str(x) of a cell: a missing cell is the float nan, whose str is 'nan'
Str(cell) == IF cell = NULL THEN <<"n", "a", "n">> ELSE cell

(***************************************************************************)
(* IEEE-754 double arithmetic.  A finite positive double is                *)
(* [k |-> "num", m |-> bits, e |-> exp]: bits are the MantBits significand *)
(* bits, most significant first, and the value is int(bits) * 2^exp.       *)
(* Zero has m = <<>>.  Round-to-nearest, ties to even.  The operators are  *)
(* split into small steps, each using its arguments as computed values.    *)
(***************************************************************************)
MantBits == 53

\* zero bits appended to a dividend so that a quotient keeps guard bits
ExtraBits == 64

NaN == [k |-> "nan"]

\* the exception float() raises, as the value of the expression raising it
ValueError == [k |-> "ValueError"]

Zeros(n) == [i \in 1..n |-> 0]

RECURSIVE BitsOf(_)
BitsOf(n) == IF n = 0 THEN <<>> ELSE BitsOf(n \div 2) \o <<n % 2>>

\* bits without its leading zeros
DropZeros(b) ==
    IF \A i \in 1..Len(b) : b[i] = 0 THEN <<>>
    ELSE SubSeq(b, CHOOSE i \in 1..Len(b) : b[i] = 1 /\ \A j \in 1..(i - 1) : b[j] = 0,
                Len(b))

\* long division of the integer bits[lo..hi] by the small integer d, entered
\* with remainder r: the quotient bits and the remainder left.  The segment
\* is halved so that the evaluation stays shallow; the bits are consumed
\* most significant first.
DivJoin(left, right) == [q |-> left.q \o right.q, r |-> right.r]

DivBit(t, d) == [q |-> <<t \div d>>, r |-> t % d]

RECURSIVE DivSeg(_, _, _, _, _)
DivRight(bits, mid, hi, left, d) == DivJoin(left, DivSeg(bits, mid + 1, hi, left.r, d))

DivSeg(bits, lo, hi, r, d) ==
    IF lo > hi THEN [q |-> <<>>, r |-> r]
    ELSE IF lo = hi THEN DivBit(2 * r + bits[lo], d)
    ELSE DivRight(bits, (lo + hi) \div 2, hi, DivSeg(bits, lo, (lo + hi) \div 2, r, d), d)

DivBits(bits, d) == DivSeg(bits, 1, Len(bits), 0, d)

\* product of the integer bits[lo..hi] and the small integer c, entered with
\* carry: the product bits of the segment and the carry out of it; the bits
\* are consumed least significant first.
MulJoin(left, right) == [p |-> left.p \o right.p, carry |-> left.carry]

MulBit(t) == [p |-> <<t % 2>>, carry |-> t \div 2]

RECURSIVE MulSeg(_, _, _, _, _)
MulLeft(bits, lo, mid, right, c) ==
    IF right.carry < 0 THEN right   \* never: the low half is computed first
    ELSE MulJoin(MulSeg(bits, lo, mid, right.carry, c), right)

MulSeg(bits, lo, hi, carry, c) ==
    IF lo > hi THEN [p |-> <<>>, carry |-> carry]
    ELSE IF lo = hi THEN MulBit(bits[lo] * c + carry)
    ELSE MulLeft(bits, lo, (lo + hi) \div 2,
                 MulSeg(bits, (lo + hi) \div 2 + 1, hi, carry, c), c)

MulCarry(r) == BitsOf(r.carry) \o r.p

MulBits(bits, c) == MulCarry(MulSeg(bits, 1, Len(bits), 0, c))

\* bits + 1 at the last zero bit p (0 when there is none: the carry out of
\* the top bit lengthens the result by one bit)
IncAt(b, p) ==
    IF p = 0 THEN <<1>> \o Zeros(Len(b))
    ELSE [i \in 1..Len(b) |-> IF i < p THEN b[i] ELSE IF i = p THEN 1 ELSE 0]

IncBits(b) ==
    IF \A i \in 1..Len(b) : b[i] = 1 THEN IncAt(b, 0)
    ELSE IncAt(b, CHOOSE i \in 1..Len(b) : b[i] = 0 /\ \A j \in (i + 1)..Len(b) : b[j] = 1)

\* the double of significand m (MantBits bits, or one more after a carry)
\* and exponent e
Pack(m, e) ==
    IF Len(m) > MantBits THEN [k |-> "num", m |-> SubSeq(m, 1, MantBits), e |-> e + 1]
    ELSE [k |-> "num", m |-> m, e |-> e]

\* the double nearest to int(bits) * 2^e (+ a positive fraction of 2^e when
\* sticky), ties to even; bits has no leading zero
RoundNorm(bits, e, sticky) ==
    IF bits = <<>> THEN [k |-> "num", m |-> <<>>, e |-> 0]
    ELSE IF Len(bits) <= MantBits
    THEN Pack(bits \o Zeros(MantBits - Len(bits)), e - (MantBits - Len(bits)))
    ELSE IF /\ bits[MantBits + 1] = 1
            /\ \/ sticky
               \/ \E i \in (MantBits + 2)..Len(bits) : bits[i] = 1
               \/ bits[MantBits] = 1
    THEN Pack(IncBits(SubSeq(bits, 1, MantBits)), e + (Len(bits) - MantBits))
    ELSE Pack(SubSeq(bits, 1, MantBits), e + (Len(bits) - MantBits))

RoundBits(bits, e, sticky) == RoundNorm(DropZeros(bits), e, sticky)

RoundQuotient(d, e) == RoundBits(d.q, e, d.r # 0)

\* x / c for a double x and a small positive integer c; nan stays nan and
\* the exception raised while computing x propagates
FDiv(x, c) ==
    IF x.k # "num" THEN x
    ELSE RoundQuotient(DivBits(x.m \o Zeros(ExtraBits), c), x.e - ExtraBits)

\* x * c for a double x and a small positive integer c
FMul(x, c) ==
    IF x.k # "num" THEN x
    ELSE RoundBits(MulBits(x.m, c), x.e, FALSE)

\* the double of the integer n
FInt(n) == RoundBits(BitsOf(n), 0, FALSE)

\* x < y on doubles (False when either is nan)
BitsLess(a, b) ==
    \E i \in 1..Len(a) : a[i] < b[i] /\ \A j \in 1..(i - 1) : a[j] = b[j]

FLess(x, y) ==
    /\ x.k = "num" /\ y.k = "num"
    /\ y.m # <<>>
    /\ \/ x.m = <<>>
       \/ x.e < y.e
       \/ x.e = y.e /\ BitsLess(x.m, y.m)

\* 10^k
RECURSIVE Pow10(_)
Pow10(k) == IF k = 0 THEN 1 ELSE 10 * Pow10(k - 1)

\* the integer written by the first n digits of ds
RECURSIVE IntOf(_, _)
IntOf(ds, n) == IF n = 0 THEN 0 ELSE 10 * IntOf(ds, n - 1) + DigitVal(ds[n])

AllDigits(ds) == \A i \in 1..Len(ds) : IsDigit(ds[i])

\* the double of the numeral with integer part ip and fraction fp
ParseParts(ip, fp) ==
    IF AllDigits(ip) /\ AllDigits(fp) /\ Len(ip) + Len(fp) >= 1
    THEN FDiv(FInt(IntOf(ip \o fp, Len(ip) + Len(fp))), Pow10(Len(fp)))
    ELSE ValueError

\* the numeral s split at its '.', which is at position dot
ParseAt(s, dot) == ParseParts(Slice(s, 1, dot - 1), Slice(s, dot + 1, Len(s)))

ParseStripped(s) ==
    IF s = <<"n", "a", "n">> THEN NaN
    ELSE IF \A i \in 1..Len(s) : s[i] # "." THEN ParseAt(s, Len(s) + 1)
    ELSE ParseAt(s, CHOOSE i \in 1..Len(s) : s[i] = ".")

\* float(s): surrounding whitespace is ignored; 'nan' is the float nan; a
\* decimal numeral (digits with at most one '.', at least one digit) is the
\* nearest double; any other text of the model's alphabet raises ValueError
\* (a second '.' is left in the fraction, which is then no digit sequence).
\* The cells of the model hold no sign, exponent, underscore or 'inf'.
ParseFloat(s) == ParseStripped(Strip(s))

(***************************************************************************)
(* convert_to_us                                                           *)
(***************************************************************************)
Comma == <<",">>

\* lines 10-16, on the stripped text
\* a variant that drops the unit and does not scale the value
ConvertStrippedUnscaled(s) ==
    ParseFloat(Replace(Replace(Replace(Replace(s, <<"n", "s">>), <<"u", "s">>),
                               <<"mu", "s">>), Comma))

ConvertStripped(s) ==
    IF Contains(s, <<"n", "s">>)
    THEN FDiv(ParseFloat(Replace(Replace(s, <<"n", "s">>), Comma)), 1000)
    ELSE IF Contains(s, <<"u", "s">>) \/ Contains(s, <<"mu", "s">>)
    THEN ParseFloat(Replace(Replace(Replace(s, <<"u", "s">>), <<"mu", "s">>), Comma))
    ELSE IF Contains(s, <<"m", "s">>)
    THEN FMul(ParseFloat(Replace(Replace(s, <<"m", "s">>), Comma)), 1000)
    ELSE ParseFloat(Replace(s, Comma))

\* line 9, then lines 10-16
convert_to_us(time_str) == ConvertStripped(Strip(Str(time_str)))

(***************************************************************************)
(* The report: the file read at line 4.  A row is a record of the cell     *)
(* texts; a missing cell is NULL.  Mean_us is Unset until line 18 adds it. *)
(***************************************************************************)
Unset == [k |-> "unset"]

Row(method, size, mean, allocated) ==
    [Method |-> method, Size |-> size, Mean |-> mean, Allocated |-> allocated,
     Mean_us |-> Unset]

Fill_100 == <<"F", "i", "l", "l", "_", "1", "0", "0">>
Fill_200 == <<"F", "i", "l", "l", "_", "2", "0", "0">>
fill_low == <<"f", "i", "l", "l">>
ForEach == <<"F", "o", "r", "E", "a", "c", "h">>
GetRow == <<"G", "e", "t", "R", "o", "w">>
GetRowFast == <<"G", "e", "t", "R", "o", "w", "F", "a", "s", "t">>
GetColumn == <<"G", "e", "t", "C", "o", "l", "u", "m", "n">>

\* the rows a report of the model is made of
ReportRows ==
    { Row(Fill_100,   100, <<"5", "0", "u", "s">>, <<"1", ",", "0", "2", "4", " ", "B">>),
      Row(Fill_200,   200, <<"1", "0", "0", "u", "s">>, <<"2", ",", "0", "4", "8", " ", "B">>),
      Row(Fill_100,   200, <<"1", ".", "0", "0", "1", "m", "s">>, NULL),
      Row(ForEach,    100, <<"1", "0", "0", "1", "u", "s">>, NULL),
      Row(GetRow,     100, <<"1", "0", "0", "0", "n", "s">>, NULL),
      Row(GetRowFast, 100, <<"1", "u", "s">>, NULL),
      Row(GetColumn,  200, <<"1", "m", "s">>, <<"1", " ", "K", "B">>),
      Row(NULL,       100, <<"5", "0", "0">>, NULL),
      Row(Fill_200,   100, <<"1", ",", "2", "3", "4", "u", "s">>, <<"1", " ", "K", "B">>),
      Row(ForEach,    200, NULL, NULL),
      Row(GetRow,     200, <<"-">>, NULL),
      Row(fill_low,   100, <<" ", "1", "2", ".", "5", " ", "mu", "s", " ">>, <<"5", "1", "2", " ", "B">>) }

RequiredColumns == {"Method", "Size", "Mean", "Allocated"}

\* the tables of at most n rows
Tables(n) == UNION {[1..k -> ReportRows] : k \in 0..n}

\* the inputs of a run: no file, a file with all the columns, or a file
\* that lacks one of them
Inputs ==
    {[exists |-> FALSE, columns |-> RequiredColumns, rows |-> <<>>]}
    \cup {[exists |-> TRUE, columns |-> RequiredColumns, rows |-> t] :
            t \in Tables(MaxRows)}
    \cup {[exists |-> TRUE, columns |-> RequiredColumns \ {c}, rows |-> t] :
            c \in RequiredColumns, t \in Tables(MaxRowsNoColumn)}

(***************************************************************************)
(* pandas operations on the rows of a frame                                *)
(***************************************************************************)
Range(s) == {s[i] : i \in 1..Len(s)}

\* Series.unique(): the distinct values in order of first appearance
UniqueAdd(u, x) == IF x \in Range(u) THEN u ELSE Append(u, x)

RECURSIVE UniqueTo(_, _)
UniqueTo(s, n) == IF n = 0 THEN <<>> ELSE UniqueAdd(UniqueTo(s, n - 1), s[n])

Unique(s) == UniqueTo(s, Len(s))

MethodsOf(rows) == [i \in 1..Len(rows) |-> rows[i].Method]

\* df[df['Method'].str.contains(sub, na=False)]
StrContainsRows(rows, sub) ==
    SelectSeq(rows, LAMBDA r : r.Method # NULL /\ Contains(r.Method, sub))

\* a variant that selects by substring instead of membership
IsinRowsContaining(rows, values) ==
    SelectSeq(rows, LAMBDA r : r.Method # NULL /\ \E v \in values : Contains(r.Method, v))

\* df[df['Method'].isin(values)]
IsinRows(rows, values) == SelectSeq(rows, LAMBDA r : r.Method \in values)

\* frame[frame['Method'] == method]
MethodRows(rows, method) == SelectSeq(rows, LAMBDA r : r.Method = method)

\* df[df['Allocated'].notna()]
NotnaRows(rows) == SelectSeq(rows, LAMBDA r : r.Allocated # NULL)

\* the .str accessor exists on a column of texts only: read_csv gives a
\* column whose cells are all missing the dtype float64 (an empty table
\* keeps dtype object)
MethodIsStr(rows) == rows = <<>> \/ \E i \in 1..Len(rows) : rows[i].Method # NULL

\* a variant that draws the first row of the method only
TimePointsFirst(method, data) ==
    [label |-> method,
     points |-> [i \in 1..(IF data = <<>> THEN 0 ELSE 1) |-> <<data[i].Size, data[i].Mean_us>>]]

\* plt.plot(data['Size'], data['Mean_us'], label=method): the series drawn
TimePoints(method, data) ==
    [label |-> method,
     points |-> [i \in 1..Len(data) |-> <<data[i].Size, data[i].Mean_us>>]]

\* one iteration of the loop of a timing chart
TimeSeries(rows, method) == TimePoints(method, MethodRows(rows, method))

\* the line series of a timing chart: one plt.plot per method ms[i]
TimeChartOf(rows, ms) == [i \in 1..Len(ms) |-> TimeSeries(rows, ms[i])]

TimeChart(rows) == TimeChartOf(rows, Unique(MethodsOf(rows)))

\* a variant with kilobytes of 1000 bytes
AllocatedKbDecimal(cell) ==
    FDiv(ParseFloat(Replace(Replace(cell, <<" ", "B">>), Comma)), 1000)

\* data['Allocated'].str.replace(' B', '').str.replace(',', '').astype(float) / 1024
AllocatedKb(cell) == FDiv(ParseFloat(Replace(Replace(cell, <<" ", "B">>), Comma)), 1024)

(***************************************************************************)
(* The script.  Its globals are df, fill_methods, foreach_methods,         *)
(* read_methods and allocated_data; fig is the current pyplot figure (its  *)
(* line series), written the image files saved so far, err the exception   *)
(* that ended the run, done the render passes completed and loads the      *)
(* number of read_csv calls.                                               *)
(***************************************************************************)
VARIABLES pc, csv, df, fill_methods, foreach_methods, read_methods,
          allocated_data, fig, written, err, done, loads

vars == <<pc, csv, df, fill_methods, foreach_methods, read_methods,
          allocated_data, fig, written, err, done, loads>>

\* a global that is not assigned yet, and one bound to a frame of rows
Undefined == [def |-> FALSE, rows |-> <<>>]

Frame(rows) == [def |-> TRUE, rows |-> rows]

Passes == {1, 2, 3, 4}

Init ==
    /\ pc = "load"
    /\ csv \in Inputs
    /\ df = [columns |-> {}, rows |-> <<>>]
    /\ fill_methods = Undefined
    /\ foreach_methods = Undefined
    /\ read_methods = Undefined
    /\ allocated_data = Undefined
    /\ fig = <<>>
    /\ written = <<>>
    /\ err = "none"
    /\ done = {}
    /\ loads = 0

\* line 4: df = pd.read_csv(...)
Load ==
    /\ pc = "load"
    /\ loads' = loads + 1
    /\ IF csv.exists
       THEN /\ df' = [columns |-> csv.columns, rows |-> csv.rows]
            /\ pc' = "normalize"
            /\ err' = err
       ELSE /\ df' = df
            /\ pc' = "aborted"
            /\ err' = "FileNotFoundError"
    /\ UNCHANGED <<csv, fill_methods, foreach_methods, read_methods,
                   allocated_data, fig, written, done>>

\* df['Mean'].apply(convert_to_us): the converted column
MeanUs(rows) == [i \in 1..Len(rows) |-> convert_to_us(rows[i].Mean)]

\* df['Mean_us'] = us: nothing is assigned when a conversion raised
SetMeanUs(d, us) ==
    IF \E i \in 1..Len(us) : us[i] = ValueError
    THEN [err |-> "ValueError", df |-> d]
    ELSE [err |-> "none",
          df |-> [columns |-> d.columns \cup {"Mean_us"},
                  rows |-> [i \in 1..Len(us) |-> [d.rows[i] EXCEPT !.Mean_us = us[i]]]]]

\* line 18 on the frame d: the frame left and the exception raised
AddMeanUs(d) ==
    IF "Mean" \notin d.columns THEN [err |-> "KeyError", df |-> d]
    ELSE SetMeanUs(d, MeanUs(d.rows))

Normalized(r) ==
    /\ df' = r.df
    /\ err' = r.err
    /\ pc' = IF r.err = "none" THEN "render" ELSE "aborted"

\* line 18: df['Mean_us'] = df['Mean'].apply(convert_to_us)
Normalize ==
    /\ pc = "normalize"
    /\ Normalized(AddMeanUs(df))
    /\ UNCHANGED <<csv, fill_methods, foreach_methods, read_methods,
                   allocated_data, fig, written, done, loads>>

(***************************************************************************)
(* The render passes, as functions of the interpreter state st: the        *)
(* globals df, fill_methods, foreach_methods, read_methods and             *)
(* allocated_data, the figure fig, the files written and the exception     *)
(* err raised.                                                             *)
(***************************************************************************)
Cur ==
    [df |-> df, fill_methods |-> fill_methods, foreach_methods |-> foreach_methods,
     read_methods |-> read_methods, allocated_data |-> allocated_data,
     fig |-> fig, written |-> written, err |-> err]

\* d[d['Method'].str.contains(sub, na=False)]: the rows selected, or the
\* exception raised
StrContains(d, sub) ==
    IF "Method" \notin d.columns THEN [err |-> "KeyError", rows |-> <<>>]
    ELSE IF ~MethodIsStr(d.rows) THEN [err |-> "AttributeError", rows |-> <<>>]
    ELSE [err |-> "none", rows |-> StrContainsRows(d.rows, sub)]

\* d[d['Method'].isin(values)]
Isin(d, values) ==
    IF "Method" \notin d.columns THEN [err |-> "KeyError", rows |-> <<>>]
    ELSE [err |-> "none", rows |-> IsinRows(d.rows, values)]

\* plt.figure() and the plotting loop of a timing chart over the selected
\* rows: the figure left and the exception raised (data['Size'] in the
\* first iteration when the column is missing)
TimeLoop(d, rows) ==
    IF rows # <<>> /\ "Size" \notin d.columns
    THEN [err |-> "KeyError", fig |-> <<>>]
    ELSE [err |-> "none", fig |-> TimeChart(rows)]

\* the end of a render pass: the exception e ends it, otherwise
\* plt.savefig(name) writes the figure f
Finish(st, name, e, f) ==
    [st EXCEPT !.fig = f,
               !.err = e,
               !.written = IF e = "none" THEN Append(@, [name |-> name, series |-> f])
                           ELSE @]

\* the loop of a pass, then its savefig
Save(st, name, loop) == Finish(st, name, loop.err, loop.fig)

\* lines 24-37, after the selection sel of line 22
Graph1Plot(st, sel) ==
    IF sel.err # "none" THEN Finish(st, "fill_comparison.png", sel.err, st.fig)
    ELSE Save([st EXCEPT !.fill_methods = Frame(sel.rows)], "fill_comparison.png",
              TimeLoop(st.df, sel.rows))

\* lines 21-37: Graph 1
Graph1Pass(st) == Graph1Plot(st, StrContains(st.df, <<"F", "i", "l", "l">>))

\* lines 43-56, after the selection sel of line 41
Graph2Plot(st, sel) ==
    IF sel.err # "none" THEN Finish(st, "foreach_comparison.png", sel.err, st.fig)
    ELSE Save([st EXCEPT !.foreach_methods = Frame(sel.rows)], "foreach_comparison.png",
              TimeLoop(st.df, sel.rows))

\* lines 40-56: Graph 2
Graph2Pass(st) ==
    Graph2Plot(st, StrContains(st.df, <<"F", "o", "r", "E", "a", "c", "h">>))

\* lines 60-73, after the selection sel of line 59
Graph3Plot(st, sel) ==
    IF sel.err # "none" THEN Finish(st, "read_operations.png", sel.err, st.fig)
    ELSE Save([st EXCEPT !.read_methods = Frame(sel.rows)], "read_operations.png",
              TimeLoop(st.df, sel.rows))

\* lines 58-73: Graph 3
Graph3Pass(st) == Graph3Plot(st, Isin(st.df, {GetRow, GetColumn}))

\* a variant of line 78 that reuses the fill_methods of Graph 1
Graph4FillStale(st) ==
    IF st.fill_methods.def THEN [err |-> "none", rows |-> st.fill_methods.rows]
    ELSE [err |-> "NameError", rows |-> <<>>]

\* line 78: fill_methods = df[df['Method'].str.contains('Fill', na=False)]
Graph4Fill(st) == StrContains(st.df, <<"F", "i", "l", "l">>)

\* lines 83-84 for the rows data of one method, kb their converted cells:
\* the series plotted or the exception raised (astype(float) at line 83,
\* then data['Size'] at line 84)
MemoryPlot(d, method, data, kb) ==
    [err |-> IF \E i \in 1..Len(kb) : kb[i] = ValueError THEN "ValueError"
             ELSE IF "Size" \notin d.columns THEN "KeyError"
             ELSE "none",
     plotted |-> TRUE,
     series |-> [label |-> method,
                 points |-> [i \in 1..Len(data) |-> <<data[i].Size, kb[i]>>]]]

\* line 82: nothing is plotted when data is empty
MemoryData(d, method, data) ==
    IF data = <<>>
    THEN [err |-> "none", plotted |-> FALSE, series |-> [label |-> method, points |-> <<>>]]
    ELSE MemoryPlot(d, method, data,
                    [i \in 1..Len(data) |-> AllocatedKb(data[i].Allocated)])

\* lines 81-84: one iteration of the loop of Graph 4
MemorySeries(d, allocated, method) == MemoryData(d, method, MethodRows(allocated, method))

MemoryResults(d, ms, allocated) ==
    [i \in 1..Len(ms) |-> MemorySeries(d, allocated, ms[i])]

Shown(sel) == [i \in 1..Len(sel) |-> sel[i].series]

\* the figure when the loop stops at iteration stop with exception e
MemoryFig(res, stop, e) ==
    [err |-> e,
     fig |-> Shown(SelectSeq(Slice(res, 1, stop - 1), LAMBDA r : r.plotted))]

MemoryAt(res, stop) == MemoryFig(res, stop, res[stop].err)

\* the loop stops at the first iteration that raises
MemoryStop(res) ==
    IF \A i \in 1..Len(res) : res[i].err = "none" THEN MemoryFig(res, Len(res) + 1, "none")
    ELSE MemoryAt(res, CHOOSE i \in 1..Len(res) :
                          res[i].err # "none" /\ \A j \in 1..(i - 1) : res[j].err = "none")

\* lines 79-84: plt.figure() and the loop over the methods of fill
MemoryLoop(d, fill, allocated) ==
    MemoryStop(MemoryResults(d, Unique(MethodsOf(fill)), allocated))

\* lines 79-93, after the selection sel of line 78
Graph4Plot(st, sel) ==
    IF sel.err # "none" THEN Finish(st, "memory_allocation.png", sel.err, st.fig)
    ELSE Save([st EXCEPT !.fill_methods = Frame(sel.rows)], "memory_allocation.png",
              MemoryLoop(st.df, sel.rows, st.allocated_data.rows))

\* lines 78-93, allocated_data being assigned
Graph4Select(st) == Graph4Plot(st, Graph4Fill(st))

\* lines 75-93: Graph 4
Graph4Pass(st) ==
    IF "Allocated" \notin st.df.columns
    THEN Finish(st, "memory_allocation.png", "KeyError", st.fig)
    ELSE Graph4Select([st EXCEPT !.allocated_data = Frame(NotnaRows(st.df.rows))])

Pass(g, st) ==
    CASE g = 1 -> Graph1Pass(st)
      [] g = 2 -> Graph2Pass(st)
      [] g = 3 -> Graph3Pass(st)
      [] g = 4 -> Graph4Pass(st)

\* the interpreter state after the pass g: an exception ends the run
Rendered(g, r) ==
    /\ df' = r.df
    /\ fill_methods' = r.fill_methods
    /\ foreach_methods' = r.foreach_methods
    /\ read_methods' = r.read_methods
    /\ allocated_data' = r.allocated_data
    /\ fig' = r.fig
    /\ written' = r.written
    /\ err' = r.err
    /\ done' = IF r.err = "none" THEN done \cup {g} ELSE done
    /\ pc' = IF r.err # "none" THEN "aborted"
             ELSE IF done \cup {g} = Passes THEN "done" ELSE "render"

\* the render pass g runs
RunPass(g) ==
    /\ pc = "render"
    /\ g \notin done
    /\ Rendered(g, Pass(g, Cur))
    /\ UNCHANGED <<csv, loads>>

(***************************************************************************)
(* The script runs the passes in program order.                            *)
(***************************************************************************)
Graph1 == done = {} /\ RunPass(1)

Graph2 == done = {1} /\ RunPass(2)

Graph3 == done = {1, 2} /\ RunPass(3)

Graph4 == done = {1, 2, 3} /\ RunPass(4)

Next == Load \/ Normalize \/ Graph1 \/ Graph2 \/ Graph3 \/ Graph4

Spec == Init /\ [][Next]_vars

(***************************************************************************)
(* The four passes taken in any order, each at most once: the order-free   *)
(* reading of the render operations.                                       *)
(***************************************************************************)
AnyGraph1 == 1 \notin done /\ RunPass(1)

AnyGraph2 == 2 \notin done /\ RunPass(2)

AnyGraph3 == 3 \notin done /\ RunPass(3)

AnyGraph4 == 4 \notin done /\ RunPass(4)

NextAnyOrder == Load \/ Normalize \/ AnyGraph1 \/ AnyGraph2 \/ AnyGraph3 \/ AnyGraph4

SpecAnyOrder == Init /\ [][NextAnyOrder]_vars

(***************************************************************************)
(* Vocabulary of the claims, stated on the cell texts themselves.          *)
(***************************************************************************)
\* the text s without the characters of cs
Without(s, cs) == SelectSeq(s, LAMBDA c : c \notin cs)

\* a decimal numeral: digits with at most one '.', and at least one digit
IsNumeral(s) ==
    /\ \A i \in 1..Len(s) : IsDigit(s[i]) \/ s[i] = "."
    /\ Cardinality({i \in 1..Len(s) : s[i] = "."}) <= 1
    /\ \E i \in 1..Len(s) : IsDigit(s[i])

\* a Mean text without its unit letters, separators and blanks
MeanDigits(s) == Without(s, {" ", ",", "n", "u", "mu", "m", "s"})

\* the unit of a Mean text: the first found in the order ns, us/μs, ms
UnitOf(s) ==
    IF Contains(s, <<"n", "s">>) THEN "ns"
    ELSE IF Contains(s, <<"u", "s">>) \/ Contains(s, <<"mu", "s">>) THEN "us"
    ELSE IF Contains(s, <<"m", "s">>) THEN "ms"
    ELSE "none"

\* a Mean cell that reduces to a number
ValidMean(cell) == cell # NULL /\ IsNumeral(MeanDigits(cell))

\* an Allocated text without its ' B' suffix, separators and blanks
AllocatedDigits(s) == Without(s, {" ", ",", "B"})

ValidAllocated(cell) == IsNumeral(AllocatedDigits(cell))

\* the numeric value of the Mean text scaled by its unit
ScaledValue(s) ==
    CASE UnitOf(s) = "ns" -> FDiv(ParseFloat(MeanDigits(s)), 1000)
      [] UnitOf(s) = "ms" -> FMul(ParseFloat(MeanDigits(s)), 1000)
      [] OTHER -> ParseFloat(MeanDigits(s))

\* the duration a valid Mean text denotes, in nanoseconds (whole for the
\* texts of ReportRows)
DigitsOnly(s) == Without(s, {"."})

FractionLen(s) ==
    IF \A i \in 1..Len(s) : s[i] # "." THEN 0
    ELSE Len(s) - (CHOOSE i \in 1..Len(s) : s[i] = ".")

NanosPerUnit(u) == CASE u = "ns" -> 1 [] u = "ms" -> 1000000 [] OTHER -> 1000

DurationNs(s) ==
    (IntOf(DigitsOnly(MeanDigits(s)), Len(DigitsOnly(MeanDigits(s)))) * NanosPerUnit(UnitOf(s)))
        \div Pow10(FractionLen(MeanDigits(s)))

\* the normalization pass has added the column Mean_us
IsNormalized == "Mean_us" \in df.columns

Rows == 1..Len(df.rows)

MeanIs(i, text) == df.rows[i].Mean = text

\* the file of the given name written by the run, as a set (at most one)
Artifacts(name) == {written[i].series : i \in {j \in 1..Len(written) : written[j].name = name}}

(***************************************************************************)
(* C1: convert_to_us returns the numeric value of the Mean text (stripped, *)
(* without ','), divided by 1000 for 'ns', unchanged for 'us'/'μs' or no   *)
(* unit, multiplied by 1000 for 'ms', the unit being the first found in    *)
(* the order ns, us/μs, ms; '1000ns' and '1us' give 1.0, '1ms' 1000.0,     *)
(* '1,234us' 1234.0 and '500' 500.0.                                       *)
(***************************************************************************)
C1_ConvertToUs ==
    IsNormalized =>
        \A i \in Rows :
            /\ df.rows[i].Mean # NULL => df.rows[i].Mean_us = ScaledValue(df.rows[i].Mean)
            /\ MeanIs(i, <<"1", "0", "0", "0", "n", "s">>) => df.rows[i].Mean_us = FInt(1)
            /\ MeanIs(i, <<"1", "u", "s">>) => df.rows[i].Mean_us = FInt(1)
            /\ MeanIs(i, <<"1", "m", "s">>) => df.rows[i].Mean_us = FInt(1000)
            /\ MeanIs(i, <<"1", ",", "2", "3", "4", "u", "s">>) => df.rows[i].Mean_us = FInt(1234)
            /\ MeanIs(i, <<"5", "0", "0">>) => df.rows[i].Mean_us = FInt(500)

\* a normalized table with a row in nanoseconds and a row in milliseconds
C1_Witness ==
    /\ IsNormalized
    /\ \E i \in Rows : MeanIs(i, <<"1", "0", "0", "0", "n", "s">>) /\ df.rows[i].Mean_us = FInt(1)
    /\ \E i \in Rows : MeanIs(i, <<"1", "m", "s">>) /\ df.rows[i].Mean_us = FInt(1000)

(***************************************************************************)
(* C2: normalizing a Mean cell that is no valid number (a missing cell     *)
(* included) fails: no Mean_us is produced for it and the run does not     *)
(* reach the render passes.                                                *)
(***************************************************************************)
C2_InvalidMeanFails ==
    (\E i \in Rows : ~ValidMean(df.rows[i].Mean)) =>
        /\ ~IsNormalized
        /\ pc \in {"normalize", "aborted"}

(***************************************************************************)
(* C3: a run that aborts on an error has written none of the four images.  *)
(***************************************************************************)
C3_NoPartialOutput == pc = "aborted" => written = <<>>

(***************************************************************************)
(* C8: after normalization, two rows whose Mean texts denote the same      *)
(* duration have equal Mean_us, and a row of a strictly shorter duration   *)
(* has a strictly smaller Mean_us, whatever the units.                     *)
(***************************************************************************)
C8_UnitIndependent ==
    IsNormalized =>
        \A i, j \in Rows :
            (ValidMean(df.rows[i].Mean) /\ ValidMean(df.rows[j].Mean)) =>
                /\ DurationNs(df.rows[i].Mean) = DurationNs(df.rows[j].Mean)
                      => df.rows[i].Mean_us = df.rows[j].Mean_us
                /\ DurationNs(df.rows[i].Mean) < DurationNs(df.rows[j].Mean)
                      => FLess(df.rows[i].Mean_us, df.rows[j].Mean_us)

(***************************************************************************)
(* Vocabulary of the chart claims.                                         *)
(***************************************************************************)
Fill == <<"F", "i", "l", "l">>

HasText(i, sub) == df.rows[i].Method # NULL /\ Contains(df.rows[i].Method, sub)

Labels(f) == {f[a].label : a \in 1..Len(f)}

DistinctLabels(f) == \A a, b \in 1..Len(f) : a # b => f[a].label # f[b].label

\* the (Size, Mean_us) pairs of the rows of method m, in table row order
PairsOf(m) ==
    LET sel == SelectSeq(df.rows, LAMBDA r : r.Method = m)
    IN  [i \in 1..Len(sel) |-> <<sel[i].Size, sel[i].Mean_us>>]

\* the chart f has one series per method of the rows in sel, each holding
\* the pairs of the rows of its method
OneSeriesPerMethod(f, sel) ==
    /\ DistinctLabels(f)
    /\ Labels(f) = {df.rows[i].Method : i \in sel}
    /\ \A a \in 1..Len(f) : f[a].points = PairsOf(f[a].label)
    /\ \A i \in sel : Cardinality({a \in 1..Len(f) : f[a].label = df.rows[i].Method}) = 1

\* the table of the example: ('Fill_100', 100, '50us'), ('Fill_200', 200, '100us')
IsExampleTable ==
    /\ Len(df.rows) = 2
    /\ df.rows[1].Method = Fill_100 /\ df.rows[1].Size = 100
    /\ df.rows[1].Mean = <<"5", "0", "u", "s">>
    /\ df.rows[2].Method = Fill_200 /\ df.rows[2].Size = 200
    /\ df.rows[2].Mean = <<"1", "0", "0", "u", "s">>

(***************************************************************************)
(* C4: the Fill chart (resp. ForEach chart) has exactly one series per     *)
(* distinct Method among the rows whose Method is present and contains     *)
(* 'Fill' (resp. 'ForEach'), and the series of m is the (Size, Mean_us)    *)
(* pairs of the rows with Method = m in row order; every selected row is   *)
(* in exactly one series.                                                  *)
(***************************************************************************)
C4_TimingSeries ==
    /\ \A f \in Artifacts("fill_comparison.png") :
          /\ OneSeriesPerMethod(f, {i \in Rows : HasText(i, Fill)})
          /\ IsExampleTable =>
                f = << [label |-> Fill_100, points |-> << <<100, FInt(50)>> >>],
                       [label |-> Fill_200, points |-> << <<200, FInt(100)>> >>] >>
    /\ \A f \in Artifacts("foreach_comparison.png") :
          OneSeriesPerMethod(f, {i \in Rows : HasText(i, ForEach)})

\* the Fill chart of a table with two rows of one Fill method, drawn as one
\* series of two points, the ForEach chart written after it
C4_Witness ==
    /\ \E f \in Artifacts("fill_comparison.png") :
          Len(f) = 1 /\ Len(f[1].points) = 2
    /\ Artifacts("foreach_comparison.png") # {}

(***************************************************************************)
(* C5: the read-operations selection holds a row iff its Method is exactly *)
(* 'GetRow' or 'GetColumn'; a 'GetRowFast' row or a row without Method is  *)
(* in no read-operations series.                                           *)
(***************************************************************************)
C5_ReadSelection ==
    /\ read_methods.def =>
          read_methods.rows =
              SelectSeq(df.rows, LAMBDA r : r.Method = GetRow \/ r.Method = GetColumn)
    /\ \A f \in Artifacts("read_operations.png") :
          /\ Labels(f) \subseteq {GetRow, GetColumn}
          /\ OneSeriesPerMethod(f, {i \in Rows : df.rows[i].Method \in {GetRow, GetColumn}})

\* the read chart of a table with a GetRow row and a GetRowFast row
C5_Witness ==
    /\ \E f \in Artifacts("read_operations.png") : Len(f) = 1
    /\ \E i \in Rows : df.rows[i].Method = GetRowFast
    /\ \E i \in Rows : df.rows[i].Method = GetRow

(***************************************************************************)
(* C6: the memory chart has exactly one series per distinct Fill method    *)
(* with a row whose Allocated is present; the series of m is the           *)
(* (Size, bytes/1024) pairs of the rows of m with Allocated present, in    *)
(* row order ('2,048 B' is 2.0 and '1,024 B' is 1.0); a missing Allocated  *)
(* is never an error.                                                      *)
(***************************************************************************)
KbOf(cell) ==
    IF cell = <<"2", ",", "0", "4", "8", " ", "B">> THEN FInt(2)
    ELSE IF cell = <<"1", ",", "0", "2", "4", " ", "B">> THEN FInt(1)
    ELSE FDiv(ParseFloat(AllocatedDigits(cell)), 1024)

KbPairsOf(m) ==
    LET sel == SelectSeq(df.rows, LAMBDA r : r.Method = m /\ r.Allocated # NULL)
    IN  [i \in 1..Len(sel) |-> <<sel[i].Size, KbOf(sel[i].Allocated)>>]

FillAllocated == {i \in Rows : HasText(i, Fill) /\ df.rows[i].Allocated # NULL}

C6_MemorySeries ==
    /\ \A f \in Artifacts("memory_allocation.png") :
          /\ DistinctLabels(f)
          /\ Labels(f) = {df.rows[i].Method : i \in FillAllocated}
          /\ \A a \in 1..Len(f) : f[a].points = KbPairsOf(f[a].label)
    /\ (pc = "aborted" /\ done = {1, 2, 3} /\ csv.columns = RequiredColumns) =>
          \E i \in FillAllocated : ~ValidAllocated(df.rows[i].Allocated)

\* the memory chart of a table where a Fill method has a row with
\* '1,024 B' and a row without Allocated
C6_Witness ==
    /\ \E f \in Artifacts("memory_allocation.png") :
          \E a \in 1..Len(f) : f[a].points = << <<100, FInt(1)>> >>
    /\ \E i \in Rows : HasText(i, Fill) /\ df.rows[i].Allocated = NULL

(***************************************************************************)
(* C7: a chart none of whose rows match its filter gets zero series, and   *)
(* its pass raises no error (the table has all its columns).               *)
(***************************************************************************)
NoMatch(g) ==
    CASE g = 1 -> \A i \in Rows : ~HasText(i, Fill)
      [] g = 2 -> \A i \in Rows : ~HasText(i, ForEach)
      [] g = 3 -> \A i \in Rows : df.rows[i].Method \notin {GetRow, GetColumn}
      [] g = 4 -> FillAllocated = {}

ArtifactOf(g) ==
    CASE g = 1 -> "fill_comparison.png"
      [] g = 2 -> "foreach_comparison.png"
      [] g = 3 -> "read_operations.png"
      [] g = 4 -> "memory_allocation.png"

\* the pass the script is at: the first one not complete
AtPass(g) == g \notin done /\ \A h \in Passes : h < g => h \in done

C7_NoMatchNoSeries ==
    (csv.columns = RequiredColumns /\ IsNormalized) =>
        \A g \in Passes :
            NoMatch(g) =>
                /\ \A f \in Artifacts(ArtifactOf(g)) : f = <<>>
                /\ ~(pc = "aborted" /\ AtPass(g))

(***************************************************************************)
(* C10: a run on a well-formed table loads once, normalizes before any     *)
(* render pass and ends having written the four files once each, in the    *)
(* order fill, foreach, read, memory; no file is written before Mean_us    *)
(* is computed for every row.                                              *)
(***************************************************************************)
WellFormedInput ==
    /\ csv.exists
    /\ csv.columns = RequiredColumns
    /\ \A i \in 1..Len(csv.rows) :
          /\ ValidMean(csv.rows[i].Mean)
          /\ csv.rows[i].Allocated # NULL => ValidAllocated(csv.rows[i].Allocated)

FileOrder ==
    <<"fill_comparison.png", "foreach_comparison.png", "read_operations.png",
      "memory_allocation.png">>

C10_WellFormedRun ==
    WellFormedInput =>
        /\ loads = IF pc = "load" THEN 0 ELSE 1
        /\ pc # "aborted"
        /\ Len(written) <= 4
        /\ \A i \in 1..Len(written) : written[i].name = FileOrder[i]
        /\ written # <<>> =>
              IsNormalized /\ \A i \in Rows : df.rows[i].Mean_us # Unset
        /\ pc = "done" => Len(written) = 4

(***************************************************************************)
(* C9: after normalization no render pass changes the table, and the       *)
(* series a pass produces are the same in every order of the passes: they  *)
(* are those of the run in program order.                                  *)
(***************************************************************************)
Start ==
    [df |-> df, fill_methods |-> Undefined, foreach_methods |-> Undefined,
     read_methods |-> Undefined, allocated_data |-> Undefined,
     fig |-> <<>>, written |-> <<>>, err |-> "none"]

Then(g, st) == IF st.err # "none" THEN st ELSE Pass(g, st)

\* the passes in program order, from the normalized table
InOrder == Then(4, Then(3, Then(2, Then(1, Start))))

SameSeries(w, v) ==
    \A i \in 1..Len(w), j \in 1..Len(v) : w[i].name = v[j].name => w[i].series = v[j].series

OrderFree(seq) ==
    /\ SameSeries(written, seq.written)
    /\ seq.err = "none" => pc # "aborted"
    /\ pc = "done" => Range(written) = Range(seq.written)

C9_ReadOnlyOrderFree ==
    /\ [][IsNormalized => df' = df]_vars
    /\ [](IsNormalized => OrderFree(InOrder))

\* the memory pass has run before the Fill pass and has plotted a series
C9_Witness ==
    /\ 4 \in done /\ 1 \notin done
    /\ \E f \in Artifacts("memory_allocation.png") : Len(f) >= 1

====
